---- MODULE Spec2Model ----
(***************************************************************************)
(* The VideoRecorder widget of src/src/components/VideoRecorder.tsx as a   *)
(* state machine.  One action per event the browser can dispatch to the    *)
(* component: a click on one of its buttons, a change of the URL field, a  *)
(* load or error signal of the source <video>, the continuation of a       *)
(* startRecording call suspended at `await audioCtx.resume()`, a           *)
(* dataavailable / stop event of a MediaRecorder, a tick of a setInterval  *)
(* timer, and the unmount cleanup.  Every action is one turn of the event  *)
(* loop, so it runs the whole handler.                                     *)
(***************************************************************************)
EXTENDS Integers, Sequences, FiniteSets, TLC

\* ---------------------------------------------------------------- bounds
MaxStarts == 2      \* startRecording calls that get as far as setInterval
MaxFrags  == 2      \* non-empty fragments the recorders emit in all

\* ------------------------------------------------------------- constants
VP9  == "video/webm;codecs=vp9,opus"
VP8  == "video/webm;codecs=vp8,opus"
WEBM == "video/webm"
MP4  == "video/mp4"
Formats == {VP9, VP8, WEBM, MP4}

\* The platforms the widget is run on: one that supports every candidate
\* format, one that supports only the last candidate, one that supports none.
Platforms == {Formats, {MP4}, {}}

Urls == {"", "https://example.com/sample.mp4"}

NoError  == "null"
CtxMsg   == "Canvas context not available"
CtorMsg  == "NotSupportedError: MediaRecorder constructor"
StartMsg == "NotSupportedError: MediaRecorder.start"
AudioMsg == "audio capture failed"
LoadMsg  == "Failed to load video. Please check the URL."

NoBlob == [present |-> FALSE, data |-> <<>>, type |-> ""]

VARIABLES
  mounted,            \* the component is mounted
  videoUrl,           \* useState videoUrl
  isVideoLoaded,      \* useState isVideoLoaded
  isRecording,        \* recordingState.isRecording
  recordedBlob,       \* recordingState.recordedBlob
  error,              \* recordingState.error
  attached,           \* the current <video> already has a MediaElementAudioSourceNode
  recorderRef,        \* recorderRef.current: 0 = null, else index in recorders
  drawIntervalRef,    \* drawIntervalRef.current: 0 = null, else a timer id
  recordedChunksRef,  \* recordedChunksRef.current
  recorders,          \* the MediaRecorder objects created, in creation order
  timers,             \* ids of the setInterval timers not yet cleared
  nTimers,            \* setInterval timers created so far
  pending,            \* startRecording calls suspended at await resume()
  supported,          \* the formats MediaRecorder.isTypeSupported accepts
  last                \* history: the event just handled and what it did

vars == <<mounted, videoUrl, isVideoLoaded, isRecording, recordedBlob, error,
          attached, recorderRef, drawIntervalRef, recordedChunksRef, recorders,
          timers, nTimers, pending, supported, last>>

\* The widget's own state and references (everything but the history).
progVars == <<mounted, videoUrl, isVideoLoaded, isRecording, recordedBlob,
              error, attached, recorderRef, drawIntervalRef, recordedChunksRef,
              recorders, timers, nTimers, pending, supported>>

Ev(e, ran, out, audio, mime, rec, stopOn) ==
  [ev |-> e, ran |-> ran, out |-> out, audio |-> audio, mime |-> mime,
   rec |-> rec, stopOn |-> stopOn]

\* ------------------------------------------------------------ platform
isTypeSupported(m) == m \in supported

\* videoRef.current is set: the <video> is rendered only for a non-empty URL
\* (line 246).  canvasRef.current is set while mounted (lines 331-334).
videoRef == mounted /\ videoUrl # ""

canvasRef == mounted

\* ------------------------------------------------------ pure functions
\* Codec fallback, lines 91-100: three successive probes of the current
\* option, each replacing it by the next candidate when unsupported.
selectMimeTypeSwapped ==
  LET o1 == VP8
      o2 == IF ~isTypeSupported(o1) THEN VP9 ELSE o1
      o3 == IF ~isTypeSupported(o2) THEN WEBM ELSE o2
      o4 == IF ~isTypeSupported(o3) THEN MP4 ELSE o3
  IN  o4

selectMimeType ==
  LET o1 == VP9
      o2 == IF ~isTypeSupported(o1) THEN VP8 ELSE o1
      o3 == IF ~isTypeSupported(o2) THEN WEBM ELSE o2
      o4 == IF ~isTypeSupported(o3) THEN MP4 ELSE o3
  IN  o4

\* The stream handed to the recorder after the inner try/catch, lines 53-85:
\* video and audio tracks when the audio graph was built, the canvas stream
\* alone when any step of it threw.  "thrown" stands for an exception that
\* leaves the inner try; the catch at line 82 lets none through.
combinedStreamNoCatch(audioFail) ==
  IF audioFail = "none" THEN "video+audio" ELSE "thrown"

combinedStream(audioFail) ==
  IF audioFail = "none" THEN "video+audio" ELSE "video"

\* Steps of the audio graph that can throw once the context is running, lines
\* 64-73: createMediaElementSource ("source"), which always throws for an
\* element that already has a source node, and the connections ("connect").
\* video is "cur" for the element now rendered and "old" for one that a
\* suspended call captured before React removed it.
GraphOutcomes(video) ==
  IF video = "cur" /\ attached THEN {"source"} ELSE {"none", "source", "connect"}

\* disabled attributes of the buttons, lines 269, 278, 321
StartDisabledNoLoadCheck == isRecording

StartDisabled == ~isVideoLoaded \/ isRecording

StopDisabled == ~isRecording

DownloadDisabled == ~recordedBlob.present

\* stopRecording, lines 144-148: the recorder stop() is called on, 0 if none
stopRecordingNoStateCheck == IF recorderRef # 0 THEN recorderRef ELSE 0

stopRecording == IF recorderRef # 0 /\ isRecording THEN recorderRef ELSE 0

\* MediaRecorder.stop(): a recording recorder becomes inactive and a task is
\* queued that fires dataavailable (the data gathered so far) and then stop;
\* on an inactive recorder nothing is queued.
RecorderStopCall(rs, r) ==
  IF rs[r].state = "recording"
  THEN [rs EXCEPT ![r].state = "inactive", ![r].stopping = TRUE]
  ELSE rs

\* ---------------------------------------------------------------- Init
Init ==
  /\ mounted = TRUE
  /\ videoUrl = ""
  /\ isVideoLoaded = FALSE
  /\ isRecording = FALSE
  /\ recordedBlob = NoBlob
  /\ error = NoError
  /\ attached = FALSE
  /\ recorderRef = 0
  /\ drawIntervalRef = 0
  /\ recordedChunksRef = <<>>
  /\ recorders = <<>>
  /\ timers = {}
  /\ nTimers = 0
  /\ pending = {}
  /\ supported \in Platforms
  /\ last = Ev("init", FALSE, "none", "none", "", 0, "none")

\* ------------------------------------------------------------- actions
\* URL field onChange, line 213.  Emptying the field removes the <video>
\* (line 246); a later URL renders a new element, with no audio source node.
\* The suspended calls and the recorders made so far then hold an element
\* that is no longer the rendered one.
ChangeUrl(u) ==
  /\ mounted
  /\ u # videoUrl
  /\ videoUrl' = u
  /\ attached' = IF u = "" THEN FALSE ELSE attached
  /\ pending' = IF u = "" THEN {[c EXCEPT !.video = "old"] : c \in pending}
                ELSE pending
  /\ recorders' = IF u = ""
                  THEN [r \in 1..Len(recorders) |->
                          [recorders[r] EXCEPT !.video = "old"]]
                  ELSE recorders
  /\ last' = Ev("ChangeUrl", TRUE, "none", "none", "", 0, "none")
  /\ UNCHANGED <<mounted, isVideoLoaded, isRecording, recordedBlob, error,
                 recorderRef, drawIntervalRef, recordedChunksRef,
                 timers, nTimers, supported>>

\* Load Video button, line 218
LoadClick ==
  /\ mounted
  /\ isVideoLoaded' = FALSE
  /\ last' = Ev("LoadClick", TRUE, "none", "none", "", 0, "none")
  /\ UNCHANGED <<mounted, videoUrl, isRecording, recordedBlob, error, attached,
                 recorderRef, drawIntervalRef, recordedChunksRef, recorders,
                 timers, nTimers, pending, supported>>

\* onLoadedData of the source <video>, lines 164-166
handleVideoLoad ==
  /\ videoRef
  /\ isVideoLoaded' = TRUE
  /\ last' = Ev("handleVideoLoad", TRUE, "none", "none", "", 0, "none")
  /\ UNCHANGED <<mounted, videoUrl, isRecording, recordedBlob, error, attached,
                 recorderRef, drawIntervalRef, recordedChunksRef, recorders,
                 timers, nTimers, pending, supported>>

\* onError of the source <video>, lines 168-174
handleVideoErrorKeepsLoaded ==
  /\ videoRef
  /\ error' = LoadMsg
  /\ last' = Ev("handleVideoError", TRUE, "none", "none", "", 0, "none")
  /\ UNCHANGED <<mounted, videoUrl, isVideoLoaded, isRecording, recordedBlob,
                 attached, recorderRef, drawIntervalRef, recordedChunksRef,
                 recorders, timers, nTimers, pending, supported>>

handleVideoError ==
  /\ videoRef
  /\ error' = LoadMsg
  /\ isVideoLoaded' = FALSE
  /\ last' = Ev("handleVideoError", TRUE, "none", "none", "", 0, "none")
  /\ UNCHANGED <<mounted, videoUrl, isRecording, recordedBlob, attached,
                 recorderRef, drawIntervalRef, recordedChunksRef, recorders,
                 timers, nTimers, pending, supported>>

\* The rest of startRecording from line 64 on, once the audio context is
\* running or its construction / resume has failed (lines 64-141).  t is the
\* Frame Mirror timer the call created, video the element it captured,
\* audioFail the step of the audio graph that threw ("none": built),
\* started (history) whether start(100) returned, raised (history) whether
\* line 134 changed isRecording from false to true,
\* startOk whether recorder.start(100) returns, errBase the error field as
\* the call sees it (cleared at line 36 when nothing intervened).  State
\* updates of an unmounted component are dropped by React.
startTail(t, video, audioFail, startOk, errBase, ev) ==
  LET stream == combinedStream(audioFail)
      mime   == selectMimeType
      ctorOk == isTypeSupported(mime)
      out    == IF stream = "thrown" THEN "audioThrow"
                ELSE IF ~ctorOk THEN "ctorThrow"
                ELSE IF ~startOk THEN "startThrow"
                ELSE "started"
      made   == out \in {"startThrow", "started"}
      r      == Len(recorders) + 1
      rec    == [state    |-> IF out = "started" THEN "recording" ELSE "inactive",
                 stopping |-> FALSE,
                 mimeType |-> mime,
                 audio    |-> (stream = "video+audio"),
                 emitted  |-> 0,
                 timer    |-> t,
                 video    |-> video,
                 started  |-> (out = "started"),
                 raised   |-> (mounted /\ out = "started" /\ ~isRecording)]
  IN  /\ attached' = IF video = "cur" /\ audioFail \in {"none", "connect"}
                     THEN TRUE ELSE attached
      /\ recordedChunksRef' = IF out = "audioThrow" THEN recordedChunksRef ELSE <<>>
      /\ recorders' = IF made THEN Append(recorders, rec) ELSE recorders
      /\ recorderRef' = IF made THEN r ELSE recorderRef
      /\ isRecording' = IF mounted /\ out = "started" THEN TRUE ELSE isRecording
      /\ error' = IF ~mounted THEN error
                  ELSE CASE out = "audioThrow" -> AudioMsg
                         [] out = "ctorThrow"  -> CtorMsg
                         [] out = "startThrow" -> StartMsg
                         [] OTHER              -> errBase
      /\ last' = Ev(ev, TRUE, out, audioFail,
                    IF out = "audioThrow" THEN "" ELSE mime,
                    IF made THEN r ELSE 0, "none")

\* startRecording up to its first suspension point, lines 29-62
startRecording ==
  \/ /\ ~videoRef \/ ~canvasRef                       \* line 34
     /\ last' = Ev("StartClick", TRUE, "noRefs", "none", "", 0, "none")
     /\ UNCHANGED progVars
  \/ /\ videoRef /\ canvasRef                         \* line 39: getContext is null
     /\ error' = CtxMsg
     /\ last' = Ev("StartClick", TRUE, "noContext", "none", "", 0, "none")
     /\ UNCHANGED <<mounted, videoUrl, isVideoLoaded, isRecording, recordedBlob,
                    attached, recorderRef, drawIntervalRef, recordedChunksRef,
                    recorders, timers, nTimers, pending, supported>>
  \/ /\ videoRef /\ canvasRef
     /\ nTimers < MaxStarts
     /\ nTimers' = nTimers + 1                         \* lines 45-47
     /\ timers' = timers \cup {nTimers + 1}
     /\ drawIntervalRef' = nTimers + 1
     /\ \/ /\ pending' = pending \cup {[timer |-> nTimers + 1, video |-> "cur"]}
           /\ error' = NoError                         \* lines 60-61: suspended
           /\ last' = Ev("StartClick", TRUE, "suspended", "none", "", 0, "none")
           /\ UNCHANGED <<attached, recordedChunksRef, recorders, recorderRef,
                          isRecording>>
        \/ /\ pending' = pending
           /\ \E af \in {"construct"} \cup GraphOutcomes("cur"), startOk \in BOOLEAN :
                startTail(nTimers + 1, "cur", af, startOk, NoError, "StartClick")
     /\ UNCHANGED <<mounted, videoUrl, isVideoLoaded, recordedBlob, supported>>

\* Start Recording button, lines 267-270: a disabled button dispatches no click
StartClick ==
  /\ mounted
  /\ IF StartDisabled
     THEN /\ last' = Ev("StartClick", FALSE, "none", "none", "", 0, "none")
          /\ UNCHANGED progVars
     ELSE startRecording

\* The continuation of a startRecording call after await audioCtx.resume():
\* the promise resolved, or it rejected into the inner catch.
ResumeStart(c) ==
  /\ c \in pending
  /\ pending' = pending \ {c}
  /\ \E af \in {"resume"} \cup GraphOutcomes(c.video), startOk \in BOOLEAN :
       startTail(c.timer, c.video, af, startOk, error, "ResumeStart")
  /\ UNCHANGED <<mounted, videoUrl, isVideoLoaded, recordedBlob, supported,
                 timers, nTimers, drawIntervalRef>>

\* Stop button, lines 276-279, and stopRecording, lines 144-148
StopClick ==
  /\ mounted
  /\ IF StopDisabled
     THEN /\ last' = Ev("StopClick", FALSE, "none", "none", "", 0, "none")
          /\ UNCHANGED progVars
     ELSE /\ recorders' = IF stopRecording # 0
                          THEN RecorderStopCall(recorders, stopRecording)
                          ELSE recorders
          /\ last' = Ev("StopClick", TRUE, "none", "none", "", stopRecording,
                        IF stopRecording # 0 THEN recorders[stopRecording].state
                        ELSE "none")
          /\ UNCHANGED <<mounted, videoUrl, isVideoLoaded, isRecording,
                         recordedBlob, error, attached, recorderRef,
                         drawIntervalRef, recordedChunksRef, timers, nTimers,
                         pending, supported>>

\* recorder.ondataavailable, lines 104-108
ondataavailable(chunks, frag) ==
  IF frag.size > 0 THEN Append(chunks, frag) ELSE chunks

\* The non-empty fragments the first k recorders have emitted
RECURSIVE Emitted(_)
Emitted(k) == IF k = 0 THEN 0 ELSE recorders[k].emitted + Emitted(k - 1)

\* The fragment recorder r emits next: of size sz, numbered among the
\* non-empty fragments of r when it is one.
Fragment(r, sz) ==
  [rec |-> r, n |-> IF sz > 0 THEN recorders[r].emitted + 1 ELSE 0, size |-> sz]

\* A timeslice dataavailable event of a recording recorder (start(100))
RecorderData(r, sz) ==
  /\ r \in 1..Len(recorders)
  /\ recorders[r].state = "recording"
  /\ sz > 0 => Emitted(Len(recorders)) < MaxFrags
  /\ recordedChunksRef' = ondataavailable(recordedChunksRef, Fragment(r, sz))
  /\ recorders' = [recorders EXCEPT ![r].emitted = @ + sz]
  /\ last' = Ev("RecorderData", TRUE, IF sz > 0 THEN "pushed" ELSE "empty",
                "none", "", r, "none")
  /\ UNCHANGED <<mounted, videoUrl, isVideoLoaded, isRecording, recordedBlob,
                 error, attached, recorderRef, drawIntervalRef, timers, nTimers,
                 pending, supported>>

\* The MIME type recorder.onstop tags the blob with, line 117
onstopMimeType ==
  IF recorderRef # 0 /\ recorders[recorderRef].mimeType # ""
  THEN recorders[recorderRef].mimeType ELSE WEBM

\* The task MediaRecorder.stop() queued for recorder r: dataavailable with
\* the data gathered since the last fragment (of size sz), then stop, whose
\* handler is lines 110-131.
RecorderStop(r, sz) ==
  /\ r \in 1..Len(recorders)
  /\ recorders[r].stopping
  /\ sz > 0 => Emitted(Len(recorders)) < MaxFrags
  /\ LET chunks == ondataavailable(recordedChunksRef, Fragment(r, sz))
         blob   == [present |-> TRUE, data |-> chunks, type |-> onstopMimeType]
     IN  /\ recordedChunksRef' = chunks
         /\ recordedBlob' = IF mounted THEN blob ELSE recordedBlob
  /\ recorders' = [recorders EXCEPT ![r].emitted = @ + sz, ![r].stopping = FALSE]
  /\ timers' = IF drawIntervalRef # 0 THEN timers \ {drawIntervalRef} ELSE timers
  /\ drawIntervalRef' = 0
  /\ isRecording' = IF mounted THEN FALSE ELSE isRecording
  /\ last' = Ev("RecorderStop", TRUE, IF sz > 0 THEN "pushed" ELSE "empty",
                "none", "", r, "none")
  /\ UNCHANGED <<mounted, videoUrl, isVideoLoaded, error, attached, recorderRef,
                 nTimers, pending, supported>>

\* A tick of a live setInterval timer, lines 45-47: one drawImage on the canvas
TimerTick(t) ==
  /\ t \in timers
  /\ last' = Ev("TimerTick", TRUE, "none", "none", "", 0, "none")
  /\ UNCHANGED progVars

\* String.prototype.includes: sub occurs in s at some position
includesNoSuffix(s, sub) ==
  \E i \in 1..(Len(s) - Len(sub)) : SubSeq(s, i, i + Len(sub) - 1) = sub

includes(s, sub) ==
  \E i \in 1..(Len(s) - Len(sub) + 1) : SubSeq(s, i, i + Len(sub) - 1) = sub

\* The extension of the download's file name, line 155
extension(type) == IF includes(type, "mp4") THEN "mp4" ELSE "webm"

\* Download button, lines 319-322, and downloadRecording, lines 150-162: a
\* disabled button dispatches no click, and the handler builds and clicks the
\* link only for a blob (line 151).  out is the extension of the file saved.
DownloadClick ==
  /\ mounted
  /\ LET ran == ~DownloadDisabled /\ recordedBlob.present
     IN  last' = Ev("DownloadClick", ran,
                    IF ran THEN extension(recordedBlob.type) ELSE "none",
                    "none", "", 0, "none")
  /\ UNCHANGED progVars

\* The effect cleanup at unmount, lines 176-185
Unmount ==
  /\ mounted
  /\ mounted' = FALSE
  /\ timers' = IF drawIntervalRef # 0 THEN timers \ {drawIntervalRef} ELSE timers
  /\ recorders' = IF recorderRef # 0
                  THEN RecorderStopCall(recorders, recorderRef) ELSE recorders
  /\ last' = Ev("Unmount", TRUE, "none", "none", "", recorderRef,
                IF recorderRef # 0 THEN recorders[recorderRef].state ELSE "none")
  /\ UNCHANGED <<videoUrl, isVideoLoaded, isRecording, recordedBlob, error,
                 attached, recorderRef, drawIntervalRef, recordedChunksRef,
                 nTimers, pending, supported>>

Next ==
  \/ \E u \in Urls : ChangeUrl(u)
  \/ LoadClick
  \/ handleVideoLoad
  \/ handleVideoError
  \/ StartClick
  \/ \E c \in pending : ResumeStart(c)
  \/ StopClick
  \/ \E r \in 1..MaxStarts, sz \in {0, 1} : RecorderData(r, sz)
  \/ \E r \in 1..MaxStarts, sz \in {0, 1} : RecorderStop(r, sz)
  \/ \E t \in 1..MaxStarts : TimerTick(t)
  \/ DownloadClick
  \/ Unmount

Spec == Init /\ [][Next]_vars

\* Encoding selection on every platform: isTypeSupported may accept any
\* subset of the candidate formats.  The events are those of the start path:
\* the URL is entered, the source loads, Start is clicked, a suspended start
\* resumes, Stop is clicked and the recorder's stop task runs.  The sessions
\* here are stopped before the recorder has produced data (the final fragment
\* is empty): what the fragments hold plays no part in the selection.
CodecInit ==
  /\ mounted = TRUE
  /\ videoUrl = ""
  /\ isVideoLoaded = FALSE
  /\ isRecording = FALSE
  /\ recordedBlob = NoBlob
  /\ error = NoError
  /\ attached = FALSE
  /\ recorderRef = 0
  /\ drawIntervalRef = 0
  /\ recordedChunksRef = <<>>
  /\ recorders = <<>>
  /\ timers = {}
  /\ nTimers = 0
  /\ pending = {}
  /\ supported \in SUBSET Formats
  /\ last = Ev("init", FALSE, "none", "none", "", 0, "none")

CodecNext ==
  \/ \E u \in Urls \ {""} : ChangeUrl(u)
  \/ handleVideoLoad
  \/ StartClick
  \/ \E c \in pending : ResumeStart(c)
  \/ StopClick
  \/ \E r \in 1..MaxStarts : RecorderStop(r, 0)

CodecSpec == CodecInit /\ [][CodecNext]_vars

\* ---------------------------------------------------------------- claims
StartEvents == {"StartClick", "ResumeStart"}

\* Recorders in the recording state, and recorders that can still append to
\* the Fragment List (recording, or stopped with the final fragment pending).
RecordingRecorders ==
  {r \in 1..Len(recorders) : recorders[r].state = "recording"}

AppendingRecorders ==
  {r \in 1..Len(recorders) :
     recorders[r].state = "recording" \/ recorders[r].stopping}

\* C1: at most one recording session is active at a time: in every state of
\* the mounted widget at most one recorder created by startRecording is in
\* the recording state, and at most one recorder can append to the Fragment
\* List.
C1_OneActiveSession ==
  mounted => /\ Cardinality(RecordingRecorders) <= 1
             /\ Cardinality(AppendingRecorders) <= 1

\* C2: Start is a no-op when the source has not loaded or a recording is
\* already active: a Start click in such a state leaves isRecording,
\* recordedBlob, error, the Fragment List, the recorder reference, the timer
\* and every other part of the widget's state unchanged.
C2_StartNoOp ==
  [][(last'.ev = "StartClick" /\ (~isVideoLoaded \/ isRecording))
       => UNCHANGED progVars]_vars

C2_Witness ==
  /\ last.ev = "StartClick" /\ ~last.ran
  /\ isRecording /\ recorderRef # 0 /\ timers # {}

\* C3: Stop is a no-op when no recording is active: while isRecording is
\* false or no recorder exists, stopRecording calls stop() on no recorder, and
\* a Stop click leaves the session state, the recorders, the Fragment List,
\* recordedBlob and the timer unchanged.
C3_StopNoOp ==
  [][/\ (~isRecording \/ recorderRef = 0) => stopRecording = 0
     /\ (last'.ev = "StopClick" /\ (~isRecording \/ recorderRef = 0))
          => UNCHANGED progVars]_vars

C3_Witness ==
  /\ last.ev = "StopClick" /\ ~last.ran
  /\ ~isRecording /\ recorderRef # 0 /\ recordedBlob.present

\* C4: the Frame Mirror timer runs only while a recording session is open: if
\* a timer started by startRecording is still live, a start is in progress or
\* the session is Recording; after a failed start attempt none is live.
C4_TimerOnlyWhileSessionOpen ==
  (mounted /\ timers # {}) => (pending # {} \/ isRecording)

\* C5: once the recorder's stop handler has run and the session is
\* Idle-with-Result (not recording, a result present, no start in progress),
\* no Frame Mirror timer started by an earlier start is live.
C5_NoTimerAfterStopHandler ==
  (mounted /\ last.ev = "RecorderStop" /\ ~isRecording /\ recordedBlob.present
     /\ pending = {})
    => timers = {}

\* C6: a failure at any step of audio derivation (context construction,
\* resume, source creation, node connection) never aborts the start attempt:
\* unless recorder construction or recorder start throws, the call creates
\* and starts a recorder over a video-only stream, sets isRecording, and
\* writes no error (the field stays as line 36 cleared it, or as it was when
\* the suspended call resumed).
C6_AudioFailureNotFatal ==
  [][(/\ last'.ev \in StartEvents
      /\ last'.audio \in {"construct", "resume", "source", "connect"}
      /\ last'.out \notin {"ctorThrow", "startThrow"})
       => /\ last'.out = "started"
          /\ Len(recorders') = Len(recorders) + 1
          /\ recorderRef' = Len(recorders')
          /\ recorders'[recorderRef'].state = "recording"
          /\ ~recorders'[recorderRef'].audio
          /\ mounted => /\ isRecording'
                        /\ error' = IF last'.ev = "StartClick" THEN NoError
                                    ELSE error]_vars

C6_Witness ==
  /\ last.ev = "ResumeStart" /\ last.audio = "resume" /\ last.out = "started"
  /\ mounted /\ isRecording /\ error = NoError
  /\ recorders[recorderRef].state = "recording" /\ ~recorders[recorderRef].audio

\* C7: every fatal failure during start (no 2D context, recorder construction
\* or recorder start throwing) ends with the error field set to a message and
\* with isRecording false.
C7_FailureReportedNotRecording ==
  (mounted /\ last.ev \in StartEvents
     /\ last.out \in {"noContext", "ctorThrow", "startThrow"})
    => (error # NoError /\ ~isRecording)

\* The non-empty fragments recorder r has emitted, in emission order
SessionFragments(r) ==
  [i \in 1..recorders[r].emitted |-> [rec |-> r, n |-> i, size |-> 1]]

\* C8: the blob finalized by a session's stop handler is the concatenation,
\* in emission order, of exactly the non-empty fragments that session's
\* recorder emitted.
C8_BlobIsSessionFragments ==
  (mounted /\ last.ev = "RecorderStop")
    => recordedBlob.data = SessionFragments(last.rec)

\* C9: for a loaded source a Start followed by a Stop ends, once the stop
\* handler has run, with isRecording false, a result blob that is present,
\* non-empty (stated for a session whose recorder emitted data) and typed with
\* one of the four negotiated formats, the Start button enabled again (the
\* source still loaded) and the Download button enabled.
C9_StartStopYieldsResult ==
  (mounted /\ last.ev = "RecorderStop" /\ recorders[last.rec].emitted > 0)
    => /\ ~isRecording
       /\ recordedBlob.present
       /\ Len(recordedBlob.data) > 0
       /\ recordedBlob.type \in Formats
       /\ ~DownloadDisabled
       /\ isVideoLoaded => ~StartDisabled

\* The first supported candidate in the order of priority
Priority == <<VP9, VP8, WEBM, MP4>>

FirstSupported(S) ==
  Priority[CHOOSE i \in 1..Len(Priority) :
             /\ Priority[i] \in S
             /\ \A j \in 1..(i - 1) : Priority[j] \notin S]

\* C10: encoding selection: whatever subset of the four candidate formats
\* the platform supports, the MIME type passed to the recorder constructor is
\* the first supported one in the order vp9, vp8, webm, mp4 (mp4 when none
\* is); and when the recorder cannot be instantiated with it, the start
\* attempt ends with an error and isRecording false.
C10_EncodingSelection ==
  (last.ev \in StartEvents /\ last.out \in {"ctorThrow", "startThrow", "started"})
    => /\ supported # {} => (last.mime = FirstSupported(supported)
                             /\ last.out # "ctorThrow")
       /\ supported = {} => (last.mime = MP4 /\ last.out = "ctorThrow")
       /\ (last.out = "ctorThrow" /\ mounted) => (error = CtorMsg /\ ~isRecording)

C10_Witness ==
  /\ last.ev \in StartEvents /\ last.out = "started"
  /\ VP9 \notin supported /\ last.mime = VP8
  /\ recorders[recorderRef].mimeType = VP8

\* C11: changing the source URL resets the loaded flag: right after any change
\* of videoUrl, isVideoLoaded is false and the Start button is disabled.
C11_UrlChangeResetsLoaded ==
  (mounted /\ last.ev = "ChangeUrl") => (~isVideoLoaded /\ StartDisabled)

\* C12: teardown leaves nothing running: once the unmount cleanup has run, no
\* Frame Mirror timer is live and no recorder is in the recording state,
\* also when a startRecording call was suspended at the await at that moment.
C12_TeardownLeavesNothingRunning ==
  ~mounted => (timers = {} /\ RecordingRecorders = {})

\* C13: a load failure of the source sets the error field to the load-failure
\* message and isVideoLoaded to false, so that Start is disabled; and
\* isVideoLoaded becomes true again only by a load signal of the element.
C13_LoadFailure ==
  [][/\ last'.ev = "handleVideoError"
          => (error' = LoadMsg /\ ~isVideoLoaded' /\ StartDisabled')
     /\ (~isVideoLoaded /\ isVideoLoaded') => last'.ev = "handleVideoLoad"]_vars

C13_Witness ==
  /\ last.ev = "handleVideoError"
  /\ error = LoadMsg /\ ~isVideoLoaded /\ StartDisabled
  /\ recordedBlob.present

\* C14: the download extension is mp4 exactly for a blob whose MIME type
\* contains "mp4", which among the formats the recorder negotiates is
\* video/mp4 alone, and webm otherwise; a Download click saves a file only
\* when a result blob exists, and never changes the widget's state.
C14_DownloadExtension ==
  [][/\ \A m \in Formats : (extension(m) = "mp4") <=> (m = MP4)
     /\ last'.ev = "DownloadClick"
          => /\ UNCHANGED progVars
             /\ last'.ran <=> recordedBlob.present
             /\ last'.ran => last'.out = IF recordedBlob.type = MP4
                                         THEN "mp4" ELSE "webm"
             /\ ~last'.ran => last'.out = "none"]_vars

C14_Witness ==
  /\ last.ev = "DownloadClick" /\ last.ran
  /\ recordedBlob.type = MP4 /\ last.out = "mp4"

\* The recorder whose start call last changed isRecording from false to true
Raiser ==
  CHOOSE r \in 1..Len(recorders) :
    /\ recorders[r].raised
    /\ \A q \in (r + 1)..Len(recorders) : ~recorders[q].raised

\* C15: isRecording changes from false to true only as the last step of a
\* startRecording call that created and started a recorder, and from true to
\* false only in the stop handler of that recorder, after stop() was called
\* on it while recording.
C15_TransitionsByStatedCauses ==
  [][/\ (~isRecording /\ isRecording')
          => /\ last'.ev \in StartEvents /\ last'.out = "started"
             /\ last'.rec = Len(recorders) + 1
             /\ recorders'[last'.rec].state = "recording"
     /\ (isRecording /\ ~isRecording')
          => /\ last'.ev = "RecorderStop"
             /\ recorders[last'.rec].stopping
             /\ last'.rec = Raiser]_vars

\* C16: every start attempt clears the error field: after a Start click that
\* ran startRecording, the error is absent unless this attempt set one of its
\* own (no 2D context, recorder construction, recorder start).
C16_StartClearsError ==
  (mounted /\ last.ev = "StartClick" /\ last.ran)
    => error = CASE last.out = "noContext"  -> CtxMsg
                 [] last.out = "ctorThrow"  -> CtorMsg
                 [] last.out = "startThrow" -> StartMsg
                 [] OTHER                   -> NoError

\* C17: a fresh start does not clear the previous result: no step of
\* startRecording changes recordedBlob, and a result that is shown is replaced
\* only by the blob of a new session, that is in the stop handler that ends a
\* recording started since, by the blob built there from the Fragment List
\* and the recorder's MIME type.
C17_StartKeepsPreviousResult ==
  [][/\ last'.ev \in StartEvents => recordedBlob' = recordedBlob
     /\ (recordedBlob.present /\ recordedBlob' # recordedBlob)
          => /\ last'.ev = "RecorderStop"
             /\ recorders[last'.rec].stopping
             /\ isRecording /\ ~isRecording'
             /\ recordedBlob' = [present |-> TRUE,
                                 data    |-> recordedChunksRef',
                                 type    |-> recorders[recorderRef].mimeType]]_vars

\* C18: stop() is invoked only on a recorder that is recording: neither a
\* Stop click nor the unmount cleanup calls it on an inactive recorder.
C18_StopOnlyOnRecording ==
  (last.ev \in {"StopClick", "Unmount"} /\ last.rec # 0)
    => last.stopOn = "recording"

\* C19: audio capture does not depend on session history: of two sessions
\* recorded from the element now rendered, the later one has an audio track
\* if the earlier one had.
C19_AudioIndependentOfHistory ==
  \A r1, r2 \in 1..Len(recorders) :
    (/\ r1 < r2
     /\ recorders[r1].started /\ recorders[r2].started
     /\ recorders[r1].video = "cur" /\ recorders[r2].video = "cur"
     /\ recorders[r1].audio)
      => recorders[r2].audio

\* C20: whenever isRecording holds, recorderRef holds a recorder and
\* drawIntervalRef holds the live Frame Mirror timer of that recorder's
\* session, and no other timer is live.
C20_RecordingHasRecorderAndTimer ==
  (mounted /\ isRecording)
    => /\ recorderRef # 0
       /\ drawIntervalRef # 0
       /\ drawIntervalRef \in timers
       /\ drawIntervalRef = recorders[recorderRef].timer
       /\ timers \subseteq {drawIntervalRef}

====
